---- MODULE Spec2Model ----
(***************************************************************************)
(* Model of scripts/build_data.py, the builder of data.json for the Hi-C   *)
(* Gallery.  A string is a sequence of character codes, so that the        *)
(* regular expressions, str.lower(), str.strip() and the sort keys are     *)
(* computed character by character as the script computes them.            *)
(***************************************************************************)
EXTENDS Integers, Sequences, FiniteSets

VARIABLES fs, pc, mode, out, exit, data, writes

vars == <<fs, pc, mode, out, exit, data, writes>>

(* ------------------------------ bounds ------------------------------- *)

\* entries of images/ in a modelled tree
MaxDirs == 2
\* *.png / *.PNG files in a modelled tree with a single case directory
MaxPngs == 3
\* *.png / *.PNG files, all directories together, in a tree with several
MaxPngsMulti == 2

(* ------------------------- character strings ------------------------- *)

US == <<95>>
SLASH == <<47>>
CASE_PREFIX == <<99, 97, 115, 101, 95>>
EXT_png == <<46, 112, 110, 103>>
EXT_PNG == <<46, 80, 78, 71>>
EXT_txt == <<46, 116, 120, 116>>
T_inversion == <<105, 110, 118, 101, 114, 115, 105, 111, 110>>
T_translocation == <<116, 114, 97, 110, 115, 108, 111, 99, 97, 116, 105, 111, 110>>
T_duplication == <<100, 117, 112, 108, 105, 99, 97, 116, 105, 111, 110>>
S_inversions == <<105, 110, 118, 101, 114, 115, 105, 111, 110, 115>>
S_translocations == <<116, 114, 97, 110, 115, 108, 111, 99, 97, 116, 105, 111, 110, 115>>
S_duplications == <<100, 117, 112, 108, 105, 99, 97, 116, 105, 111, 110, 115>>
IMAGES == <<105, 109, 97, 103, 101, 115>>
COVER == <<99, 111, 118, 101, 114>>
DASH == <<32, 8212, 32>>
SpaceStr == <<32>>

IsDigit(c) == c \in 48..57
IsAlnum(c) == c \in (48..57) \cup (65..90) \cup (97..122)
IsSpace(c) == c \in {9, 10, 11, 12, 13, 32}

\* [A-Za-z0-9]+
AlnumPlus(s) == Len(s) > 0 /\ \A i \in 1..Len(s) : IsAlnum(s[i])

StartsWith(s, p) == Len(s) >= Len(p) /\ SubSeq(s, 1, Len(p)) = p
EndsWith(s, p) == Len(s) >= Len(p) /\ SubSeq(s, Len(s) - Len(p) + 1, Len(s)) = p
Drop(s, n) == SubSeq(s, n + 1, Len(s))

\* str.lower()
Lower(s) == [i \in 1..Len(s) |-> IF s[i] \in 65..90 THEN s[i] + 32 ELSE s[i]]

\* slug[:1].upper() + slug[1:]
Capitalize(s) ==
    [i \in 1..Len(s) |-> IF i = 1 /\ s[i] \in 97..122 THEN s[i] - 32 ELSE s[i]]

\* str.strip()
Strip(s) ==
    LET keep == {i \in 1..Len(s) : ~IsSpace(s[i])}
        lo == CHOOSE i \in keep : \A j \in keep : i <= j
        hi == CHOOSE i \in keep : \A j \in keep : j <= i
    IN  IF keep = {} THEN <<>> ELSE SubSeq(s, lo, hi)

\* a <= b for Python tuples / strings of code points
RECURSIVE LeqFrom(_, _, _)
LeqFrom(a, b, i) ==
    IF i > Len(a) THEN TRUE
    ELSE IF i > Len(b) THEN FALSE
    ELSE IF a[i] # b[i] THEN a[i] < b[i]
    ELSE LeqFrom(a, b, i + 1)

LexLeq(a, b) == LeqFrom(a, b, 1)

\* the fields of s between underscores
Fields(s) ==
    LET cuts == {i \in 1..Len(s) : s[i] = US[1]}
        n == Cardinality(cuts)
        cut(k) == IF k = 0 THEN 0
                  ELSE IF k = n + 1 THEN Len(s) + 1
                  ELSE CHOOSE i \in cuts : Cardinality({j \in cuts : j <= i}) = k
    IN  [k \in 1..(n + 1) |-> SubSeq(s, cut(k - 1) + 1, cut(k) - 1)]

(* ------------------------- module constants -------------------------- *)

Types == <<T_inversion, T_translocation, T_duplication>>

TYPE_TO_SLUG(t) ==
    IF t = T_inversion THEN S_inversions
    ELSE IF t = T_translocation THEN S_translocations
    ELSE S_duplications

SLUG_ORDER == <<S_inversions, S_translocations, S_duplications>>

NoMatch == [matched |-> FALSE]

\* ^(?:case_)?[A-Za-z0-9]+_[A-Za-z0-9]+$
CaseDirReMatch(name) ==
    LET plain(s) == Len(Fields(s)) = 2 /\ AlnumPlus(Fields(s)[1]) /\ AlnumPlus(Fields(s)[2])
    IN  plain(name) \/ (StartsWith(name, CASE_PREFIX) /\ plain(Drop(name, Len(CASE_PREFIX))))

\* ^(inversion|duplication|translocation)_([A-Za-z0-9]+)_([A-Za-z0-9]+)_(\d{2})\.(?:png|PNG)$
\* no group can hold an underscore, so a match has exactly four fields
FileReMatch(name) ==
    LET f == Fields(name)
    IN  IF /\ Len(f) = 4
           /\ f[1] \in {T_inversion, T_duplication, T_translocation}
           /\ AlnumPlus(f[2])
           /\ AlnumPlus(f[3])
           /\ Len(f[4]) = 6
           /\ IsDigit(f[4][1]) /\ IsDigit(f[4][2])
           /\ SubSeq(f[4], 3, 6) \in {EXT_png, EXT_PNG}
        THEN [matched |-> TRUE, t |-> f[1], sp |-> f[2], au |-> f[3],
              xx |-> SubSeq(f[4], 1, 2)]
        ELSE NoMatch

\* int(m.group(4))
IntOf(xx) == (xx[1] - 48) * 10 + (xx[2] - 48)

\* re.sub(r"^case_", "", folder)
StripCasePrefix(folder) ==
    IF StartsWith(folder, CASE_PREFIX) THEN Drop(folder, Len(CASE_PREFIX)) ELSE folder

human_case_name(folder) ==
    LET base == StripCasePrefix(folder)
        cuts == {i \in 1..Len(base) : base[i] = US[1]}
        c == CHOOSE i \in cuts : \A j \in cuts : i <= j
        sp == IF cuts = {} THEN base ELSE SubSeq(base, 1, c - 1)
        au == IF cuts = {} THEN <<>> ELSE Drop(base, c)
    IN  IF au # <<>> THEN sp \o DASH \o au ELSE base

\* rel(case_dir / name)
rel(dir, name) == IMAGES \o SLASH \o dir \o SLASH \o name

\* png.with_suffix(".txt"), for a name that glob("*.png") or glob("*.PNG") lists
WithSuffixTxt(name) == SubSeq(name, 1, Len(name) - 4) \o EXT_txt

\* Path.exists() of case_dir / name
Exists(d, name) == name \in d.pngs \/ name \in d.txts

(* ----------------------------- file system --------------------------- *)

\* Every sidecar .txt of the modelled trees holds this text.
CaptionText == <<32, 99, 10>>

\* A case directory is [name, isDir, pngs, txts]: pngs the names of its *.png
\* and *.PNG files, txts the names of its .txt files.  An entry of images/
\* that is a regular file has isDir = FALSE and holds nothing.
Entry(name, isDir, pngs, txts) ==
    [name |-> name, isDir |-> isDir, pngs |-> pngs, txts |-> txts]

RECURSIVE Perms(_)
\* the orders in which a directory listing can enumerate the set S
Perms(S) ==
    IF S = {} THEN {<<>>}
    ELSE UNION {{<<x>> \o p : p \in Perms(S \ {x})} : x \in S}

\* chain(case_dir.glob("*.png"), case_dir.glob("*.PNG")), in every order the
\* two listings can come in
GlobOrders(d) ==
    {a \o b : a \in Perms({n \in d.pngs : EndsWith(n, EXT_png)}),
              b \in Perms({n \in d.pngs : EndsWith(n, EXT_PNG)})}

\* one glob order for each directory
GlobChoices(entries) ==
    {g \in [{d.name : d \in entries} -> UNION {GlobOrders(d) : d \in entries}] :
        \A d \in entries : g[d.name] \in GlobOrders(d)}

\* IMG_DIR.iterdir(), in every order
IterdirOrders(entries) == Perms(entries)

(* ------------------------- the modelled names ------------------------ *)

N_sp1 == <<115, 112, 49>>
N_SP1 == <<83, 80, 49>>
N_au1 == <<97, 117, 49>>
N_01 == <<48, 49>>
N_02 == <<48, 50>>
N_bad == <<98, 97, 100>>

ImageName(t, sp, au, xx, ext) == t \o US \o sp \o US \o au \o US \o xx \o ext

DirNames ==
    {N_sp1 \o US \o N_au1, N_SP1 \o US \o N_au1,
     CASE_PREFIX \o N_sp1 \o US \o N_au1, N_bad}

PngNames ==
    {ImageName(T_inversion, N_sp1, N_au1, N_01, EXT_png),
     ImageName(T_inversion, N_sp1, N_au1, N_01, EXT_PNG),
     ImageName(T_inversion, N_SP1, N_au1, N_01, EXT_png),
     ImageName(T_inversion, N_sp1, N_au1, N_02, EXT_png),
     ImageName(T_duplication, N_sp1, N_au1, N_01, EXT_png),
     COVER \o EXT_png,
     COVER \o US \o T_inversion \o EXT_png}

\* the png files of a tree with several entries in images/
MultiPngNames ==
    {ImageName(T_inversion, N_sp1, N_au1, N_01, EXT_png),
     ImageName(T_translocation, N_sp1, N_au1, N_01, EXT_png)}

AllPngNames == PngNames \cup MultiPngNames

\* FILE_RE.match and str.lower tabulated over the modelled names
FILE_RE == [n \in AllPngNames |-> FileReMatch(n)]
CASE_DIR_RE == [n \in DirNames |-> CaseDirReMatch(n)]
LowerName == [n \in AllPngNames \cup DirNames |-> Lower(n)]

(* ------------------------------ functions ---------------------------- *)

\* sorted(items, key=...): stable; every item carries its key
\* sorted() left out: the items in the order the listing gave them
Unsorted(items) == items

RECURSIVE sorted(_)
sorted(items) ==
    IF items = <<>> THEN <<>>
    ELSE LET n == Len(items)
             x == items[n]
             s == sorted(SubSeq(items, 1, n - 1))
             \* x goes behind every item whose key is not greater than its own
             k == Cardinality({i \in 1..(n - 1) : LexLeq(s[i].key, x.key)})
         IN  SubSeq(s, 1, k) \o <<x>> \o SubSeq(s, k + 1, n - 1)

RECURSIVE Flatten(_)
Flatten(ss) == IF ss = <<>> THEN <<>> ELSE Head(ss) \o Flatten(Tail(ss))

\* [p for p in IMG_DIR.iterdir() if p.is_dir()]
DirsOf(io) == SelectSeq(io, LAMBDA e : e.isDir)

\* the items of list_pngs_sorted, (order, p) with the sort key (order, p.name.lower())
PngItem(name) ==
    LET m == FILE_RE[name]
        order == IF m.matched THEN IntOf(m.xx) ELSE 9999
    IN  [order |-> order, name |-> name, key |-> <<order>> \o LowerName[name]]

PngItems == [n \in AllPngNames |-> PngItem(n)]

list_pngs_sorted(g) == sorted([i \in 1..Len(g) |-> PngItems[g[i]]])

\* png.with_suffix(".txt") tabulated over the modelled names
TxtOf == [n \in AllPngNames |-> WithSuffixTxt(n)]

caption_for(d, png) ==
    IF Exists(d, TxtOf[png]) THEN Strip(CaptionText) ELSE <<>>

Problem(kind, dir, file) == [kind |-> kind, dir |-> dir, file |-> file]

\* the caption test made the elif of the name test
FileProblemsElif(d, png) ==
    LET m == FILE_RE[png]
        base == StripCasePrefix(d.name)
    IN  IF ~m.matched THEN <<Problem("BadFileName", d.name, png)>>
        ELSE IF m.sp \o US \o m.au # base
        THEN <<Problem("FolderFileDisagree", d.name, png)>>
        ELSE IF ~Exists(d, TxtOf[png])
        THEN <<Problem("MissingCaption", d.name, png)>>
        ELSE <<>>

\* what one pass of the loop of validate_case appends for the file png
FileProblems(d, png) ==
    LET m == FILE_RE[png]
        base == StripCasePrefix(d.name)
    IN  IF ~m.matched THEN <<Problem("BadFileName", d.name, png)>>
        ELSE (IF m.sp \o US \o m.au # base
              THEN <<Problem("FolderFileDisagree", d.name, png)>> ELSE <<>>)
          \o (IF ~Exists(d, TxtOf[png])
              THEN <<Problem("MissingCaption", d.name, png)>> ELSE <<>>)

validate_case(d, g) ==
    IF ~CASE_DIR_RE[d.name] THEN <<Problem("BadFolderName", d.name, <<>>)>>
    ELSE LET l == list_pngs_sorted(g)
         IN  Flatten([i \in 1..Len(l) |-> FileProblems(d, l[i].name)])

None == <<-1>>

\* the dict build_data appends to images_by_type[t] for the file png, "order" popped
ImageOf(d, png) ==
    LET m == FILE_RE[png]
    IN  [matched |-> m.matched,
         t |-> IF m.matched THEN m.t ELSE <<>>,
         img |-> IF m.matched
                 THEN [src |-> rel(d.name, png),
                       alt |-> m.sp \o US \o m.au \o SpaceStr \o m.xx,
                       caption |-> caption_for(d, png)]
                 ELSE <<>>]

\* every image of the folder put in every type's list
ImagesOfAnyType(d, l, t) ==
    LET all == [i \in 1..Len(l) |-> ImageOf(d, l[i].name)]
        mine == SelectSeq(all, LAMBDA x : x.matched)
    IN  [i \in 1..Len(mine) |-> mine[i].img]

\* images_by_type[t] after the loop over l = list_pngs_sorted(case_dir)
ImagesOfType(d, l, t) ==
    LET all == [i \in 1..Len(l) |-> ImageOf(d, l[i].name)]
        mine == SelectSeq(all, LAMBDA x : x.matched /\ x.t = t)
    IN  [i \in 1..Len(mine) |-> mine[i].img]

\* the generic cover tested before the typed one
CoverForGenericFirst(d, t, images) ==
    LET cover_typed == COVER \o US \o t \o EXT_png
        cover_generic == COVER \o EXT_png
    IN  IF Exists(d, cover_generic) THEN rel(d.name, cover_generic)
        ELSE IF Exists(d, cover_typed) THEN rel(d.name, cover_typed)
        ELSE images[1].src

CoverFor(d, t, images) ==
    LET cover_typed == COVER \o US \o t \o EXT_png
        cover_generic == COVER \o EXT_png
    IN  IF Exists(d, cover_typed) THEN rel(d.name, cover_typed)
        ELSE IF Exists(d, cover_generic) THEN rel(d.name, cover_generic)
        ELSE images[1].src

\* the case build_data appends to categories[TYPE_TO_SLUG[t]]["cases"], if any
CaseOfType(d, t, images) ==
    IF images = <<>> THEN <<>>
    ELSE <<[cat |-> TYPE_TO_SLUG(t),
            key |-> LowerName[d.name],
            case |-> [slug |-> d.name,
                      name |-> human_case_name(d.name),
                      description |-> <<>>,
                      coverImage |-> CoverFor(d, t, images),
                      images |-> images]]>>

\* the cases one pass of the loop over the case directories appends
DirCases(d, g) ==
    LET l == list_pngs_sorted(g)
    IN  Flatten([k \in 1..Len(Types) |-> CaseOfType(d, Types[k], ImagesOfType(d, l, Types[k]))])

\* the case directories in the order of the loop of build_data
SortedDirs(io) ==
    LET ds == DirsOf(io)
        s == sorted([i \in 1..Len(ds) |-> [d |-> ds[i], key |-> LowerName[ds[i].name]]])
    IN  [i \in 1..Len(s) |-> s[i].d]

\* every case appended, in the order of the appends
Appended(io, go) ==
    LET ds == SortedDirs(io)
    IN  Flatten([i \in 1..Len(ds) |-> DirCases(ds[i], go[ds[i].name])])

\* categories[slug] at the end of build_data, slug = SLUG_ORDER[k]
Category(k, appended) ==
    LET cs == sorted(SelectSeq(appended, LAMBDA c : c.cat = SLUG_ORDER[k]))
        cases == [i \in 1..Len(cs) |-> cs[i].case]
    IN  [slug |-> SLUG_ORDER[k],
         name |-> Capitalize(SLUG_ORDER[k]),
         description |-> <<>>,
         coverImage |-> IF cases # <<>> THEN cases[1].coverImage ELSE None,
         cases |-> cases]

\* the object build_data hands to json.dumps; json.dumps writes the keys in
\* this fixed order, so equal objects are equal files and different objects
\* different files
Manifest(io, go) ==
    LET appended == Appended(io, go)
    IN  [title |-> "Hi-C Gallery",
         tagline |-> "Explore Hi-C contact maps by category -> case -> annotated views.",
         categories |-> [k \in 1..Len(SLUG_ORDER) |-> Category(k, appended)]]

NoData == [present |-> FALSE]
DataJson(m) == [present |-> TRUE, json |-> m]

(* ------------------------------- output ------------------------------ *)

Line(kind, p) == [kind |-> kind, p |-> p]

ProblemLines(ps) == [i \in 1..Len(ps) |-> Line("problem", ps[i])]

\* the summary build_data prints after the write
Summary(m) ==
    Flatten([k \in 1..Len(m.categories) |->
        <<Line("category", <<m.categories[k].slug, Len(m.categories[k].cases)>>)>>
        \o [i \in 1..Len(m.categories[k].cases) |->
              Line("case", <<m.categories[k].cases[i].slug,
                             Len(m.categories[k].cases[i].images)>>)]])

\* the loop over the case directories left at the first one with problems
CheckProblemsFirstOnly(io, go) ==
    IF ~fs.exists THEN <<Problem("MissingImagesDir", <<>>, <<>>)>>
    ELSE LET ds == DirsOf(io)
             bad == {i \in 1..Len(ds) : validate_case(ds[i], go[ds[i].name]) # <<>>}
             first == CHOOSE i \in bad : \A j \in bad : i <= j
         IN  IF bad = {} THEN <<>> ELSE validate_case(ds[first], go[ds[first].name])

\* problems of the --check branch
CheckProblems(io, go) ==
    IF ~fs.exists THEN <<Problem("MissingImagesDir", <<>>, <<>>)>>
    ELSE LET ds == DirsOf(io)
         IN  Flatten([i \in 1..Len(ds) |-> validate_case(ds[i], go[ds[i].name])])

\* what the warning loop of the build branch prints
Warnings(io, go) ==
    IF ~fs.exists THEN <<>>
    ELSE LET ds == DirsOf(io)
         IN  Flatten([i \in 1..Len(ds) |->
                LET probs == validate_case(ds[i], go[ds[i].name])
                IN  IF probs # <<>>
                    THEN <<Line("WARNING:", <<>>)>> \o ProblemLines(probs)
                    ELSE <<>>])

(* --------------------------- the tree universe ----------------------- *)

\* the contents of a case directory with at most n png files, named in
\* names, and sidecars among those named in txts; a .txt file that is the
\* sidecar of no image is read by nothing and is left out
Contents(names, txts, n) ==
    UNION {{[pngs |-> P, txts |-> T] :
                T \in SUBSET {WithSuffixTxt(q) :
                                 q \in {r \in P : FILE_RE[r].matched /\ WithSuffixTxt(r) \in txts}}} :
           P \in {Q \in SUBSET names : Cardinality(Q) <= n}}

RECURSIVE Trees(_, _, _, _, _)
\* the sets of at most k entries named in names, holding together at most b
\* png files, named in pngs, and sidecars among those named in txts
Trees(names, pngs, txts, k, b) ==
    IF k = 0 \/ names = {} THEN {{}}
    ELSE LET n == CHOOSE x \in names : TRUE
         IN  Trees(names \ {n}, pngs, txts, k, b)
             \cup {{Entry(n, FALSE, {}, {})} \cup r :
                       r \in Trees(names \ {n}, pngs, txts, k - 1, b)}
             \cup UNION {{{Entry(n, TRUE, c.pngs, c.txts)} \cup r :
                             r \in Trees(names \ {n}, pngs, txts, k - 1,
                                         b - Cardinality(c.pngs))} :
                         c \in Contents(pngs, txts, b)}

\* images/ is missing, or holds one entry with up to MaxPngs png files and
\* any of their sidecars, or up to MaxDirs entries with up to MaxPngsMulti
\* png files between them and no sidecar
FsUniverse ==
    {[exists |-> FALSE, entries |-> {}]}
    \cup {[exists |-> TRUE, entries |-> E] :
             E \in Trees(DirNames, PngNames, {WithSuffixTxt(f) : f \in PngNames}, 1, MaxPngs)
                   \cup Trees(DirNames, MultiPngNames, {}, MaxDirs, MaxPngsMulti)}

(* ------------------------------ the runs ----------------------------- *)

Init ==
    /\ fs \in FsUniverse
    /\ pc = "idle"
    /\ mode = "none"
    /\ out = <<>>
    /\ exit = -1
    /\ data = NoData
    /\ writes = 0

\* what the --check branch prints and the status it exits with
CheckOutcome(problems) ==
    IF problems # <<>>
    THEN [out |-> <<Line("Validation failed:", <<>>)>> \o ProblemLines(problems), exit |-> 1]
    ELSE [out |-> <<Line("All good", <<>>)>>, exit |-> 0]

\* python build_data.py --check
CheckMain ==
    /\ pc = "idle"
    /\ \E io \in IterdirOrders(fs.entries), go \in GlobChoices(fs.entries) :
          LET r == CheckOutcome(CheckProblems(io, go))
          IN  /\ out' = r.out
              /\ exit' = r.exit
    /\ mode' = "check"
    /\ pc' = "exited"
    /\ UNCHANGED <<fs, data, writes>>

\* python build_data.py: the warning loop before build_data()
BuildWarn ==
    /\ pc = "idle"
    /\ \E io \in IterdirOrders(fs.entries), go \in GlobChoices(fs.entries) :
          out' = Warnings(io, go)
    /\ mode' = "build"
    /\ pc' = "build_data"
    /\ UNCHANGED <<fs, exit, data, writes>>

\* a build that gives up when the warning loop printed something
BuildDataHaltsOnProblems ==
    /\ pc = "build_data"
    /\ IF ~fs.exists \/ out # <<>>
       THEN /\ out' = out \o <<Line("images/ directory not found", <<>>)>>
            /\ exit' = 1
            /\ UNCHANGED <<data, writes>>
       ELSE \E io \in IterdirOrders(fs.entries), go \in GlobChoices(fs.entries) :
               LET m == Manifest(io, go)
               IN  /\ data' = DataJson(m)
                   /\ writes' = writes + 1
                   /\ out' = out \o Summary(m) \o <<Line("Wrote data.json", <<>>)>>
                   /\ exit' = 0
    /\ pc' = "exited"
    /\ UNCHANGED <<fs, mode>>

\* build_data() and the print after it
BuildData ==
    /\ pc = "build_data"
    /\ IF ~fs.exists
       THEN /\ out' = out \o <<Line("images/ directory not found", <<>>)>>
            /\ exit' = 1
            /\ UNCHANGED <<data, writes>>
       ELSE \E io \in IterdirOrders(fs.entries), go \in GlobChoices(fs.entries) :
               LET m == Manifest(io, go)
               IN  /\ data' = DataJson(m)
                   /\ writes' = writes + 1
                   /\ out' = out \o Summary(m) \o <<Line("Wrote data.json", <<>>)>>
                   /\ exit' = 0
    /\ pc' = "exited"
    /\ UNCHANGED <<fs, mode>>

\* the script is run again on the same tree
Rerun ==
    /\ pc = "exited"
    /\ pc' = "idle"
    /\ mode' = "none"
    /\ out' = <<>>
    /\ exit' = -1
    /\ writes' = 0
    /\ UNCHANGED <<fs, data>>

Next == CheckMain \/ BuildWarn \/ BuildData \/ Rerun

Spec == Init /\ [][Next]_vars

(* ------------------------------ properties --------------------------- *)

Cats == data.json.categories

\* the case directory a case of the manifest has its slug from
DirOfSlug(slug) == CHOOSE d \in fs.entries : d.isDir /\ d.name = slug

IsDirSlug(slug) == \E d \in fs.entries : d.isDir /\ d.name = slug

\* the grammar-matching png files of type t in the directory d
FilesOfType(d, t) == {f \in d.pngs : FILE_RE[f].matched /\ FILE_RE[f].t = t}

MatchingFiles(d) == {f \in d.pngs : FILE_RE[f].matched}

\* the embedded <speciesID>_<authorID> of a grammar-matching file
EmbeddedCase(f) == FILE_RE[f].sp \o US \o FILE_RE[f].au

\* the problem lines among the printed lines
PrintedProblems == {i \in 1..Len(out) : out[i].kind = "problem"}

Printed(p) == \E i \in PrintedProblems : out[i].p = p

\* the problems of the directory d: its name, or else those of each of its files
ProblemsOf(d) ==
    IF ~CaseDirReMatch(d.name) THEN {Problem("BadFolderName", d.name, <<>>)}
    ELSE UNION {{FileProblems(d, f)[i] : i \in 1..Len(FileProblems(d, f))} : f \in d.pngs}

\* the problems a run collects on the tree
ExpectedProblems ==
    IF ~fs.exists THEN {Problem("MissingImagesDir", <<>>, <<>>)}
    ELSE UNION {ProblemsOf(d) : d \in {e \in fs.entries : e.isDir}}

\* C1: a written manifest holds only well-formed entries: every case comes
\* from a directory whose name matches the case-folder grammar, and every
\* image of the case is a grammar-matching file of that directory whose
\* embedded <speciesID>_<authorID> equals the directory name less a leading case_.
C1_OnlyWellFormedEntries ==
    data.present =>
        \A k \in 1..Len(Cats) : \A i \in 1..Len(Cats[k].cases) :
            LET c == Cats[k].cases[i]
            IN  /\ IsDirSlug(c.slug)
                /\ CaseDirReMatch(c.slug)
                /\ \A j \in 1..Len(c.images) :
                      \E f \in MatchingFiles(DirOfSlug(c.slug)) :
                          /\ c.images[j].src = rel(c.slug, f)
                          /\ EmbeddedCase(f) = StripCasePrefix(c.slug)

\* two grammar-matching files of d of one type carry the same index
DuplicateIndex(d) ==
    \E f, g \in MatchingFiles(d) :
        /\ f # g
        /\ FILE_RE[f].t = FILE_RE[g].t
        /\ IntOf(FILE_RE[f].xx) = IntOf(FILE_RE[g].xx)

\* C2: after a --check run, every validly named case directory in which two
\* grammar-matching files of the same type share an index has at least one
\* problem reported.
C2_DuplicateIndexReported ==
    (pc = "exited" /\ mode = "check") =>
        \A d \in fs.entries :
            (d.isDir /\ CaseDirReMatch(d.name) /\ DuplicateIndex(d)) =>
                \E i \in PrintedProblems : out[i].p.dir = d.name

IsCoverName(f) ==
    \/ f = COVER \o EXT_png
    \/ \E k \in 1..Len(Types) : f = COVER \o US \o Types[k] \o EXT_png

\* d follows the documented layout: a valid folder name, images that agree
\* with it and have their caption, and optional cover files
DocumentedLayout(d) ==
    /\ CaseDirReMatch(d.name)
    /\ \A f \in d.pngs :
          \/ IsCoverName(f)
          \/ /\ FILE_RE[f].matched
             /\ EmbeddedCase(f) = StripCasePrefix(d.name)
             /\ WithSuffixTxt(f) \in d.txts

\* C3: files that do not match the image grammar are never an error and are
\* left out of the manifest; a --check run on a tree whose case directories
\* all follow the documented layout exits with status 0.
C3_ForeignFilesNeverAnError ==
    /\ data.present =>
          \A k \in 1..Len(Cats) : \A i \in 1..Len(Cats[k].cases) :
              \A j \in 1..Len(Cats[k].cases[i].images) :
                  \A d \in fs.entries : \A f \in d.pngs \ MatchingFiles(d) :
                      Cats[k].cases[i].images[j].src # rel(d.name, f)
    /\ (pc = "exited" /\ mode = "check" /\ fs.exists
            /\ \A d \in fs.entries : d.isDir /\ DocumentedLayout(d))
          => exit = 0

\* C4: a --check run exits with status 0 exactly when the tree has no problem
\* (images/ missing, or any problem of any case directory), prints every
\* problem of every directory otherwise, and leaves data.json as it was.
C4_CheckMode ==
    [][(pc = "idle" /\ mode' = "check") =>
          /\ exit' \in {0, 1}
          /\ (exit' = 0) <=> (ExpectedProblems = {})
          /\ \A p \in ExpectedProblems :
                \E i \in 1..Len(out') : out'[i].kind = "problem" /\ out'[i].p = p
          /\ data' = data
          /\ writes' = 0]_vars

C4_Witness ==
    /\ pc = "exited" /\ mode = "check" /\ exit = 1
    /\ data.present
    /\ \E i, j \in PrintedProblems : out[i].p.dir # out[j].p.dir

C6_Deterministic ==
    [][(pc = "build_data" /\ data.present /\ data'.present) => data' = data]_vars

\* the file of the case directory slug that an image of the manifest shows
FileOfSrc(slug, src) == CHOOSE f \in DirOfSlug(slug).pngs : src = rel(slug, f)

\* (numeric index, lower-cased file name) of a grammar-matching file
OrderKey(f) == <<IntOf(FILE_RE[f].xx)>> \o Lower(f)

\* C7: in a written manifest the categories are inversions, translocations,
\* duplications in that order, a category without cases has no cover, the
\* cases of a category are in non-decreasing order of lower-cased slug, and
\* the images of a case in non-decreasing order of (index, lower-cased name).
C7_CanonicalOrder ==
    data.present =>
        /\ [k \in 1..Len(Cats) |-> Cats[k].slug] = SLUG_ORDER
        /\ \A k \in 1..Len(Cats) :
              LET cases == Cats[k].cases
              IN  /\ cases = <<>> => Cats[k].coverImage = None
                  /\ \A i \in 1..(Len(cases) - 1) :
                        LexLeq(Lower(cases[i].slug), Lower(cases[i + 1].slug))
                  /\ \A i \in 1..Len(cases) :
                        \A j \in 1..(Len(cases[i].images) - 1) :
                            LexLeq(OrderKey(FileOfSrc(cases[i].slug, cases[i].images[j].src)),
                                   OrderKey(FileOfSrc(cases[i].slug, cases[i].images[j + 1].src)))

C7_Witness ==
    /\ data.present
    /\ \E k \in 1..Len(Cats) :
          /\ Len(Cats[k].cases) = 2
          /\ Lower(Cats[k].cases[1].slug) # Lower(Cats[k].cases[2].slug)
    /\ \E k \in 1..Len(Cats) : Cats[k].cases = <<>>

\* the files of type t of d that no other file of type t of d precedes
FirstOfType(d, t) ==
    {f \in FilesOfType(d, t) : \A g \in FilesOfType(d, t) : LexLeq(OrderKey(f), OrderKey(g))}

\* C8: the cover of a case of type t from directory d is d/cover_<t>.png if
\* that file exists, else d/cover.png if that file exists, else the first
\* image, by the image order, among the images of type t of d.
C8_CoverResolution ==
    data.present =>
        \A k \in 1..Len(Cats) : \A i \in 1..Len(Cats[k].cases) :
            LET c == Cats[k].cases[i]
                d == DirOfSlug(c.slug)
                typed == COVER \o US \o Types[k] \o EXT_png
                generic == COVER \o EXT_png
            IN  IF typed \in d.pngs THEN c.coverImage = rel(d.name, typed)
                ELSE IF generic \in d.pngs THEN c.coverImage = rel(d.name, generic)
                ELSE \E f \in FirstOfType(d, Types[k]) : c.coverImage = rel(d.name, f)

C8_Witness ==
    /\ data.present
    /\ \E d \in fs.entries :
          /\ COVER \o EXT_png \in d.pngs
          /\ COVER \o US \o T_inversion \o EXT_png \in d.pngs
          /\ \E i \in 1..Len(Cats[1].cases) :
                /\ Cats[1].cases[i].slug = d.name
                /\ Cats[1].cases[i].coverImage = rel(d.name, COVER \o US \o T_inversion \o EXT_png)

\* C9: a written manifest holds, in the category of type t, exactly one case
\* for each case directory with a grammar-matching image of type t and none
\* for any other; its slug is the directory name and its images are exactly
\* the grammar-matching images of type t of the directory, each once.
C9_OneCasePerDirAndType ==
    data.present =>
        \A k \in 1..Len(Cats) :
            LET t == Types[k]
                dirs == {d \in fs.entries : d.isDir /\ FilesOfType(d, t) # {}}
                cases == Cats[k].cases
            IN  /\ Cats[k].slug = TYPE_TO_SLUG(t)
                /\ Len(cases) = Cardinality(dirs)
                /\ {cases[i].slug : i \in 1..Len(cases)} = {d.name : d \in dirs}
                /\ \A i \in 1..Len(cases) :
                      /\ Len(cases[i].images) = Cardinality(FilesOfType(DirOfSlug(cases[i].slug), t))
                      /\ {cases[i].images[j].src : j \in 1..Len(cases[i].images)}
                            = {rel(cases[i].slug, f) : f \in FilesOfType(DirOfSlug(cases[i].slug), t)}

C9_Witness ==
    /\ data.present
    /\ Len(Cats[1].cases) = 1 /\ Len(Cats[2].cases) = 0 /\ Len(Cats[3].cases) = 1
    /\ Cats[1].cases[1].slug = Cats[3].cases[1].slug
    /\ Len(Cats[1].cases[1].images) = 1 /\ Len(Cats[3].cases[1].images) = 1

\* the places <<category, case, image>> of the manifest that show the file f
\* of the directory d
ImagesOfFile(d, f) ==
    UNION {UNION {{<<k, i, j>> : j \in {n \in 1..Len(Cats[k].cases[i].images) :
                                          /\ Cats[k].cases[i].slug = d.name
                                          /\ Cats[k].cases[i].images[n].src = rel(d.name, f)}} :
                  i \in 1..Len(Cats[k].cases)} :
           k \in 1..Len(Cats)}

\* C10: a grammar-matching image without a caption sidecar is in the written
\* manifest with the caption "", one with a sidecar has the stripped text of
\* it; and a --check run reports, for a validly named case directory, the
\* problem "Missing caption" exactly once for each image without a sidecar
\* and never for an image with one.
C10_MissingCaption ==
    /\ data.present =>
          \A d \in fs.entries : \A f \in MatchingFiles(d) :
              /\ ImagesOfFile(d, f) # {}
              /\ \A x \in ImagesOfFile(d, f) :
                    Cats[x[1]].cases[x[2]].images[x[3]].caption
                        = IF WithSuffixTxt(f) \in d.txts THEN Strip(CaptionText) ELSE <<>>
    /\ (pc = "exited" /\ mode = "check") =>
          \A d \in fs.entries : \A f \in MatchingFiles(d) :
              (d.isDir /\ CaseDirReMatch(d.name)) =>
                  Cardinality({i \in PrintedProblems :
                                  out[i].p = Problem("MissingCaption", d.name, f)})
                      = IF WithSuffixTxt(f) \in d.txts THEN 0 ELSE 1

C10_Witness ==
    /\ data.present /\ pc = "exited" /\ mode = "check"
    /\ \E d \in fs.entries : \E f, g \in MatchingFiles(d) :
          /\ WithSuffixTxt(f) \notin d.txts
          /\ WithSuffixTxt(g) \in d.txts
          /\ Printed(Problem("MissingCaption", d.name, f))
          /\ \E x \in ImagesOfFile(d, f) : Cats[x[1]].cases[x[2]].images[x[3]].caption = <<>>

====
